---- MODULE Spec2Model ----
(***************************************************************************)
(* Model of spo2::Sensor::connect (src/src/lib.rs): adapter selection, the  *)
(* time-bounded scan loop over the btleplug CentralEvent stream, and the    *)
(* post-loop connection / service-discovery check.                          *)
(*                                                                          *)
(* The platform (btleplug) is the environment: every platform call returns  *)
(* a result the model chooses nondeterministically (Ok values or Err), and  *)
(* the event stream delivers any event in any order.  Every await point of  *)
(* the function is one action; the pure code between two await points is    *)
(* part of the action of the call that precedes it.                         *)
(***************************************************************************)
EXTENDS Integers, Sequences, FiniteSets, TLC

(* ------------------------------ bounds --------------------------------- *)
\* number of distinct peripheral ids the event stream may mention
NumIds == 2
\* the platform lists 0..MaxAdapters adapters; opts.adaptor ranges over the same
MaxAdapters == 1
\* opts.search_timeout ranges over 0..MaxTimeout ticks
MaxTimeout == 2
\* advertised local names have at most MaxNameLen characters
MaxNameLen == 2
\* a handle's service list holds 0..MaxServices services
MaxServices == 1
\* opts.local_name has at most MaxPrefixLen characters
MaxPrefixLen == 1

\* Duration::from_millis(500), the per-wait timeout: one tick of the clock
WaitTicks == 1

Alphabet == {"J", "j"}
Ids == 1..NumIds
NoId == 0

RECURSIVE StringsUpTo(_)
StringsUpTo(n) ==
    IF n = 0 THEN {<<>>}
    ELSE LET S == StringsUpTo(n - 1)
         IN  S \cup {Append(s, c) : s \in {t \in S : Len(t) = n - 1}, c \in Alphabet}

Names == StringsUpTo(MaxNameLen)
Prefixes == StringsUpTo(MaxPrefixLen)

(* --------------------------- data of the code -------------------------- *)
\* Option<String> local_name of PeripheralProperties
NoName == [some |-> FALSE, val |-> <<>>]
SomeName(n) == [some |-> TRUE, val |-> n]
LocalNames == {NoName} \cup {SomeName(n) : n \in Names}

\* Result<Option<PeripheralProperties>> of Peripheral::properties
PropsErr == [res |-> "Err", local_name |-> NoName]
PropsNone == [res |-> "None", local_name |-> NoName]
PropsSome(l) == [res |-> "Some", local_name |-> l]
PropsResults == {PropsErr, PropsNone} \cup {PropsSome(l) : l \in LocalNames}
\* the local props before periph.properties() is called in an iteration
NoProps == [res |-> "unfetched", local_name |-> NoName]

\* str::starts_with
StartsWith(l, pre) ==
    /\ Len(pre) <= Len(l)
    /\ \A i \in 1..Len(pre) : l[i] = pre[i]

\* let mut device = None / Some((periph, props))
NoDevice == [set |-> FALSE, periph |-> NoId, local_name |-> NoName]
SomeDevice(p, l) == [set |-> TRUE, periph |-> p, local_name |-> l]

\* CentralEvent
EventKinds == {"DeviceDiscovered", "DeviceConnected", "DeviceDisconnected",
               "ManufacturerDataAdvertisement", "ServicesAdvertisement",
               "ServiceDataAdvertisement", "DeviceUpdated"}
NoEvent == [kind |-> "none", id |-> NoId]
Events == [kind : EventKinds, id : Ids]

\* Result<Sensor, Error>
Pending == [tag |-> "Pending", arg |-> -1]
Ok(p) == [tag |-> "Ok", arg |-> p]
Err(t) == [tag |-> t, arg |-> -1]
ErrBle == Err("Ble")
ErrNoMatchingAdaptor(i) == [tag |-> "NoMatchingAdaptor", arg |-> i]

VARIABLES
    opts,        \* Options {adaptor, local_name, search_timeout}
    pc,          \* the await point the function is at
    adapters,    \* number of adapters manager.adapters() listed; -1 before the
                 \* call and again once nth() has taken one out of the list
    events,      \* the event subscription: "none", "open", "dropped"
    stream,      \* whether events.next() can still yield: "live", "ended"
    device,      \* let mut device
    pid,         \* let mut pid (NoId is None)
    evt,         \* the event of the current loop iteration
    props,       \* what periph.properties() answered in this iteration
    elapsed,     \* now.elapsed() in ticks
    waited,      \* ticks spent in the current tokio::time::timeout
    result,      \* what connect returned
    issued,      \* platform calls issued so far in this run
    connects,    \* number of Peripheral::connect calls issued
    stop_scans,  \* number of Central::stop_scan calls issued
    obs,         \* what the handle and the stream reported to the function
    failed       \* the call that returned Err to a `?`, "none" if none did

vars == <<opts, pc, adapters, events, stream, device, pid, evt, props, elapsed,
          waited, result, issued, connects, stop_scans, obs, failed>>

\* connected: the post-loop is_connected answers; services: the length of
\* services(); props_failed: a properties() fetch gave None or Err;
\* in_connected: the in-loop is_connected answer; evt_target: the handle the
\* DeviceConnected arm called; disconnected: the DeviceDisconnected arm ran
NoObs == [connected |-> "unchecked", services |-> -1, props_failed |-> FALSE,
          in_connected |-> "unchecked", evt_target |-> NoId,
          disconnected |-> FALSE]

Init ==
    /\ opts \in [adaptor : 0..MaxAdapters, local_name : Prefixes,
                 search_timeout : 0..MaxTimeout]
    /\ pc = "manager"
    /\ adapters = -1
    /\ events = "none"
    /\ stream = "live"
    /\ device = NoDevice
    /\ pid = NoId
    /\ evt = NoEvent
    /\ props = NoProps
    /\ elapsed = 0
    /\ waited = 0
    /\ result = Pending
    /\ issued = {}
    /\ connects = 0
    /\ stop_scans = 0
    /\ obs = NoObs
    /\ failed = "none"

(* ------------------------ pure steps of the code ----------------------- *)
\* nth() taken as inclusive of the length
NthAdapter_Inclusive(n, i) == i <= n

\* adapters.into_iter().nth(opts.adaptor): Some iff the index is in range
NthAdapter(n, i) == i < n

\* the loop condition with <= for <
LoopCond_Inclusive(e, timeout) == e <= timeout

\* while now.elapsed() < *opts.search_timeout
LoopCond(e, timeout) == e < timeout

\* the name compared for equality instead of by prefix
Matches_Exact(p, pre) ==
    /\ p.res = "Some"
    /\ p.local_name.some
    /\ p.local_name.val = pre

\* match &props.local_name { Some(l) if l.starts_with(&opts.local_name) => .. }
Matches(p, pre) ==
    /\ p.res = "Some"
    /\ p.local_name.some
    /\ StartsWith(p.local_name.val, pre)

\* the DeviceConnected arm without its guard id == pid
Dispatch_AnyId(e, p) ==
    IF e.kind = "DeviceDiscovered" /\ p = NoId THEN "peripheral"
    ELSE IF e.kind = "DeviceConnected" /\ p # NoId THEN "evt_discover"
    ELSE "loop"

\* the DeviceDiscovered arm without its None pattern on pid
Dispatch_AnyPid(e, p) ==
    IF e.kind = "DeviceDiscovered" THEN "peripheral"
    ELSE IF e.kind = "DeviceConnected" /\ p # NoId /\ e.id = p THEN "evt_discover"
    ELSE "loop"

\* match (&evt, &pid): the arm that does work, or "loop" for the log-only
\* arms and the catch-all
Dispatch(e, p) ==
    IF e.kind = "DeviceDiscovered" /\ p = NoId THEN "peripheral"
    ELSE IF e.kind = "DeviceConnected" /\ p # NoId /\ e.id = p THEN "evt_discover"
    ELSE "loop"

\* pid = Some(id.clone()) alone, the handle left unset
SetCandidate_PidOnly(e, p) ==
    /\ device' = device
    /\ pid' = e.id

\* the pair of assignments device = Some((periph, props)); pid = Some(id.clone())
SetCandidate(e, p) ==
    /\ device' = SomeDevice(e.id, p.local_name)
    /\ pid' = e.id

\* return <r>
Return(r) ==
    /\ result' = r
    /\ pc' = "done"

Call(c) == issued' = issued \cup {c}

\* the platform's answer to call c as the `?` after it sees it: Ok or Err
Answered(c, ok) == failed' = IF ok THEN failed ELSE c

\* (CentralEvent::DeviceDisconnected(id), Some(pid)) if id == pid
LogsDisconnect(e, p) == e.kind = "DeviceDisconnected" /\ p # NoId /\ e.id = p

Bump(n) == IF n < 3 THEN n + 1 ELSE n

LoopPcs == {"loop", "wait", "peripheral", "properties", "is_connected",
            "connect", "discover_services", "evt_discover"}

(* ------------------------------ actions -------------------------------- *)
\* Manager::new().await?
ManagerNew ==
    /\ pc = "manager"
    /\ Call("Manager::new")
    /\ \E ok \in BOOLEAN :
          /\ Answered("Manager::new", ok)
          /\ IF ok THEN pc' = "adapters" /\ result' = result
                   ELSE Return(ErrBle)
    /\ UNCHANGED <<opts, adapters, events, stream, device, pid, evt, props,
                   elapsed, waited, connects, stop_scans, obs>>

\* manager.adapters().await?
Adapters ==
    /\ pc = "adapters"
    /\ Call("adapters")
    /\ \/ /\ Return(ErrBle) /\ Answered("adapters", FALSE)
          /\ adapters' = adapters
       \/ \E n \in 0..MaxAdapters :
             /\ Answered("adapters", TRUE)
             /\ adapters' = n
             /\ pc' = "nth"
             /\ result' = result
    /\ UNCHANGED <<opts, events, stream, device, pid, evt, props, elapsed,
                   waited, connects, stop_scans, obs>>

\* match adapters.into_iter().nth(opts.adaptor) { Some(c) => c, None => return .. }
SelectAdapter ==
    /\ pc = "nth"
    /\ IF NthAdapter(adapters, opts.adaptor)
          THEN /\ pc' = "events"
               /\ adapters' = -1
               /\ result' = result
          ELSE /\ Return(ErrNoMatchingAdaptor(opts.adaptor))
               /\ adapters' = adapters
    /\ UNCHANGED <<opts, failed, events, stream, device, pid, evt, props, elapsed,
                   waited, issued, connects, stop_scans, obs>>

\* central.events().await?
EventsSubscribe ==
    /\ pc = "events"
    /\ Call("events")
    /\ \E ok \in BOOLEAN :
          /\ Answered("events", ok)
          /\ IF ok THEN pc' = "start_scan" /\ result' = result /\ events' = "open"
                   ELSE Return(ErrBle) /\ events' = events
    /\ UNCHANGED <<opts, adapters, stream, device, pid, evt, props, elapsed,
                   waited, connects, stop_scans, obs>>

\* central.start_scan(ScanFilter::default()).await?; device = None; pid = None;
\* now = Instant::now()
StartScan ==
    /\ pc = "start_scan"
    /\ Call("start_scan")
    /\ \E ok \in BOOLEAN :
          /\ Answered("start_scan", ok)
          /\ IF ok THEN pc' = "loop" /\ result' = result
                   ELSE Return(ErrBle)
    /\ device' = NoDevice
    /\ pid' = NoId
    /\ elapsed' = 0
    /\ UNCHANGED <<opts, adapters, events, stream, evt, props, waited, connects,
                   stop_scans, obs>>

\* while now.elapsed() < timeout && device.is_none(): the loop left as soon
\* as a candidate is recorded
LoopCheck_BreakWhenFound ==
    /\ pc = "loop"
    /\ evt' = NoEvent
    /\ props' = NoProps
    /\ IF LoopCond(elapsed, opts.search_timeout) /\ ~device.set
          THEN /\ pc' = "wait"
               /\ UNCHANGED <<events, result>>
          ELSE /\ events' = "dropped"
               /\ IF device.set
                     THEN pc' = "post_is_connected" /\ result' = result
                     ELSE Return(Err("NoDeviceFound"))
    /\ UNCHANGED <<opts, failed, adapters, stream, device, pid, elapsed,
                   waited, issued, connects, stop_scans, obs>>

\* the while condition, the previous iteration's locals going out of scope;
\* on exit drop(events) and the match on device (central.stop_scan() is
\* commented out in the source, so nothing stops the scan)
LoopCheck ==
    /\ pc = "loop"
    /\ evt' = NoEvent
    /\ props' = NoProps
    /\ IF LoopCond(elapsed, opts.search_timeout)
          THEN /\ pc' = "wait"
               /\ UNCHANGED <<events, result>>
          ELSE /\ events' = "dropped"
               /\ IF device.set
                     THEN pc' = "post_is_connected" /\ result' = result
                     ELSE Return(Err("NoDeviceFound"))
    /\ UNCHANGED <<opts, failed, adapters, stream, device, pid, elapsed, waited, issued,
                   connects, stop_scans, obs>>

\* a DeviceDisconnected arm that drops the candidate and scans again
WaitEvent_ResetOnDisconnect(e) ==
    /\ pc = "wait"
    /\ stream = "live"
    /\ evt' = e
    /\ pc' = Dispatch(e, pid)
    /\ waited' = 0
    /\ IF LogsDisconnect(e, pid)
          THEN /\ obs' = [obs EXCEPT !.disconnected = TRUE]
               /\ device' = NoDevice
               /\ pid' = NoId
          ELSE UNCHANGED <<obs, device, pid>>
    /\ UNCHANGED <<opts, failed, adapters, events, stream, props,
                   elapsed, result, issued, connects, stop_scans>>

\* timeout(500ms, events.next()) yields Ok(Some(e)); then match (&evt, &pid)
WaitEvent(e) ==
    /\ pc = "wait"
    /\ stream = "live"
    /\ evt' = e
    /\ pc' = Dispatch(e, pid)
    /\ waited' = 0
    /\ obs' = IF LogsDisconnect(e, pid) THEN [obs EXCEPT !.disconnected = TRUE]
                                        ELSE obs
    /\ UNCHANGED <<opts, failed, adapters, events, stream, device, pid, props,
                   elapsed, result, issued, connects, stop_scans>>

\* Ok(None) => break: the end of the stream taken as the end of the search
WaitNone_Break ==
    /\ pc = "wait"
    /\ stream = "live"
    /\ stream' = "ended"
    /\ waited' = 0
    /\ events' = "dropped"
    /\ IF device.set
          THEN pc' = "post_is_connected" /\ result' = result
          ELSE Return(Err("NoDeviceFound"))
    /\ UNCHANGED <<opts, failed, adapters, device, pid, evt, props, elapsed,
                   issued, connects, stop_scans, obs>>

\* timeout(500ms, events.next()) yields Ok(None), the stream ends: continue
WaitNone ==
    /\ pc = "wait"
    /\ stream = "live"
    /\ stream' = "ended"
    /\ pc' = "loop"
    /\ waited' = 0
    /\ UNCHANGED <<opts, failed, adapters, events, device, pid, evt, props, elapsed,
                   result, issued, connects, stop_scans, obs>>

\* events.next() polled on the stream that has ended yields Ok(None) again
\* at once: continue
WaitEnded ==
    /\ pc = "wait"
    /\ stream = "ended"
    /\ pc' = "loop"
    /\ waited' = 0
    /\ UNCHANGED <<opts, failed, adapters, events, stream, device, pid, evt,
                   props,
                   elapsed, result, issued, connects, stop_scans, obs>>

\* events.next() awaited without the tokio timeout around it
WaitTimeout_Never ==
    /\ pc = "wait"
    /\ FALSE
    /\ UNCHANGED vars

\* timeout(500ms, events.next()) yields Err(Elapsed): continue
WaitTimeout ==
    /\ pc = "wait"
    /\ waited >= WaitTicks
    /\ pc' = "loop"
    /\ waited' = 0
    /\ UNCHANGED <<opts, failed, adapters, events, stream, device, pid, evt,
                   props,
                   elapsed, result, issued, connects, stop_scans, obs>>

\* central.peripheral(&id).await?
GetPeripheral ==
    /\ pc = "peripheral"
    /\ Call("peripheral")
    /\ \E ok \in BOOLEAN :
          /\ Answered("peripheral", ok)
          /\ IF ok THEN pc' = "properties" /\ result' = result
                   ELSE Return(ErrBle)
    /\ UNCHANGED <<opts, adapters, events, stream, device, pid, evt, props,
                   elapsed, waited, connects, stop_scans, obs>>

\* periph.properties().await? : the Err arm propagated instead of continue
GetProperties_Fatal ==
    /\ pc = "properties"
    /\ Call("properties")
    /\ \E p \in PropsResults :
          /\ props' = p
          /\ IF p.res = "Err"
                THEN Return(ErrBle)
                ELSE /\ pc' = IF Matches(p, opts.local_name) THEN "is_connected"
                                                               ELSE "loop"
                     /\ result' = result
          /\ obs' = IF p.res = "Some" THEN obs
                    ELSE [obs EXCEPT !.props_failed = TRUE]
    /\ UNCHANGED <<opts, failed, adapters, events, stream, device, pid, evt, elapsed,
                   waited, connects, stop_scans>>

\* periph.properties().await, the two continue arms, and the name match
GetProperties ==
    /\ pc = "properties"
    /\ Call("properties")
    /\ \E p \in PropsResults :
          /\ props' = p
          /\ pc' = IF Matches(p, opts.local_name) THEN "is_connected" ELSE "loop"
          /\ obs' = IF p.res = "Some" THEN obs
                    ELSE [obs EXCEPT !.props_failed = TRUE]
    /\ UNCHANGED <<opts, failed, adapters, events, stream, device, pid, evt, elapsed,
                   waited, result, connects, stop_scans>>

\* if !periph.is_connected().await?
\* if periph.is_connected().await? { connect } else { discover_services }
InLoopIsConnected_Swapped ==
    /\ pc = "is_connected"
    /\ Call("is_connected")
    /\ \/ Return(ErrBle) /\ Answered("is_connected", FALSE) /\ obs' = obs
       \/ \E c \in BOOLEAN :
             /\ Answered("is_connected", TRUE)
             /\ pc' = IF c THEN "connect" ELSE "discover_services"
             /\ obs' = [obs EXCEPT !.in_connected = IF c THEN "true" ELSE "false"]
             /\ result' = result
    /\ UNCHANGED <<opts, adapters, events, stream, device, pid, evt, props,
                   elapsed, waited, connects, stop_scans>>

\* if !periph.is_connected().await? { connect } else { discover_services }

InLoopIsConnected ==
    /\ pc = "is_connected"
    /\ Call("is_connected")
    /\ \/ Return(ErrBle) /\ Answered("is_connected", FALSE) /\ obs' = obs
       \/ \E c \in BOOLEAN :
             /\ Answered("is_connected", TRUE)
             /\ pc' = IF c THEN "discover_services" ELSE "connect"
             /\ obs' = [obs EXCEPT !.in_connected = IF c THEN "true" ELSE "false"]
             /\ result' = result
    /\ UNCHANGED <<opts, adapters, events, stream, device, pid, evt, props,
                   elapsed, waited, connects, stop_scans>>

\* let _ = periph.connect().await; the Err of connect dropped instead of `?`
InLoopConnect_ErrIgnored ==
    /\ pc = "connect"
    /\ Call("connect")
    /\ connects' = Bump(connects)
    /\ \E ok \in BOOLEAN :
          /\ Answered("connect", ok)
          /\ SetCandidate(evt, props)
          /\ pc' = "loop"
          /\ result' = result
    /\ UNCHANGED <<opts, adapters, events, stream, evt, props, elapsed, waited,
                   stop_scans, obs>>

\* periph.connect().await?; then the candidate is recorded
InLoopConnect ==
    /\ pc = "connect"
    /\ Call("connect")
    /\ connects' = Bump(connects)
    /\ \E ok \in BOOLEAN :
          /\ Answered("connect", ok)
          /\ IF ok THEN /\ SetCandidate(evt, props)
                        /\ pc' = "loop"
                        /\ result' = result
                   ELSE /\ Return(ErrBle)
                        /\ UNCHANGED <<device, pid>>
    /\ UNCHANGED <<opts, adapters, events, stream, evt, props, elapsed, waited,
                   stop_scans, obs>>

\* periph.discover_services().await?; then the candidate is recorded
InLoopDiscover ==
    /\ pc = "discover_services"
    /\ Call("discover_services")
    /\ \E ok \in BOOLEAN :
          /\ Answered("discover_services", ok)
          /\ IF ok THEN /\ SetCandidate(evt, props)
                        /\ pc' = "loop"
                        /\ result' = result
                   ELSE /\ Return(ErrBle)
                        /\ UNCHANGED <<device, pid>>
    /\ UNCHANGED <<opts, adapters, events, stream, evt, props, elapsed, waited,
                   connects, stop_scans, obs>>

\* DeviceConnected arm that returns the sensor once the services are discovered
OnConnectedDiscover_ReturnEarly ==
    /\ pc = "evt_discover"
    /\ IF device.set
          THEN /\ Call("evt_discover_services")
               /\ obs' = [obs EXCEPT !.evt_target = device.periph]
               /\ \E ok \in BOOLEAN :
                     /\ Answered("evt_discover_services", ok)
                     /\ IF ok THEN Return(Ok(device.periph))
                              ELSE Return(ErrBle)
          ELSE /\ Return(Err("panic"))
               /\ UNCHANGED <<issued, failed, obs>>
    /\ UNCHANGED <<opts, adapters, events, stream, device, pid, evt, props,
                   elapsed, waited, connects, stop_scans>>

\* DeviceConnected arm that connects again before discovering the services
OnConnectedDiscover_Reconnect ==
    /\ pc = "evt_discover"
    /\ IF device.set
          THEN /\ Call("evt_discover_services")
               /\ connects' = Bump(connects)
               /\ obs' = [obs EXCEPT !.evt_target = device.periph]
               /\ \E ok \in BOOLEAN :
                     /\ Answered("evt_discover_services", ok)
                     /\ IF ok THEN pc' = "loop" /\ result' = result
                              ELSE Return(ErrBle)
          ELSE /\ Return(Err("panic"))
               /\ UNCHANGED <<issued, failed, obs, connects>>
    /\ UNCHANGED <<opts, adapters, events, stream, device, pid, evt, props,
                   elapsed, waited, stop_scans>>

\* DeviceConnected arm: device.as_ref().unwrap().0.discover_services().await?
OnConnectedDiscover ==
    /\ pc = "evt_discover"
    /\ IF device.set
          THEN /\ Call("evt_discover_services")
               /\ obs' = [obs EXCEPT !.evt_target = device.periph]
               /\ \E ok \in BOOLEAN :
                     /\ Answered("evt_discover_services", ok)
                     /\ IF ok THEN pc' = "loop" /\ result' = result
                              ELSE Return(ErrBle)
          ELSE /\ Return(Err("panic"))
               /\ UNCHANGED <<issued, failed, obs>>
    /\ UNCHANGED <<opts, adapters, events, stream, device, pid, evt, props,
                   elapsed, waited, connects, stop_scans>>

\* if !device.is_connected().await?
PostIsConnected ==
    /\ pc = "post_is_connected"
    /\ Call("post_is_connected")
    /\ \/ Return(ErrBle) /\ Answered("post_is_connected", FALSE) /\ obs' = obs
       \/ \E c \in BOOLEAN :
             /\ Answered("post_is_connected", TRUE)
             /\ pc' = IF c THEN "post_discover" ELSE "post_connect"
             /\ obs' = IF c THEN [obs EXCEPT !.connected = "direct"] ELSE obs
             /\ result' = result
    /\ UNCHANGED <<opts, adapters, events, stream, device, pid, evt, props,
                   elapsed, waited, connects, stop_scans>>

\* device.connect().await?
PostConnect ==
    /\ pc = "post_connect"
    /\ Call("post_connect")
    /\ connects' = Bump(connects)
    /\ \E ok \in BOOLEAN :
          /\ Answered("post_connect", ok)
          /\ IF ok THEN pc' = "post_recheck" /\ result' = result
                   ELSE Return(ErrBle)
    /\ UNCHANGED <<opts, adapters, events, stream, device, pid, evt, props,
                   elapsed, waited, stop_scans, obs>>

\* the re-check without its return: a handle still not connected goes on
PostRecheck_NoReturn ==
    /\ pc = "post_recheck"
    /\ Call("post_recheck")
    /\ \/ Return(ErrBle) /\ Answered("post_recheck", FALSE) /\ obs' = obs
       \/ \E c \in BOOLEAN :
             /\ Answered("post_recheck", TRUE)
             /\ pc' = "post_discover"
             /\ result' = result
             /\ obs' = [obs EXCEPT !.connected = IF c THEN "after_connect"
                                                      ELSE "never"]
    /\ UNCHANGED <<opts, adapters, events, stream, device, pid, evt, props,
                   elapsed, waited, connects, stop_scans>>

\* the re-check with a retry: a handle still not connected is connected again
PostRecheck_Retry ==
    /\ pc = "post_recheck"
    /\ Call("post_recheck")
    /\ \/ Return(ErrBle) /\ Answered("post_recheck", FALSE) /\ obs' = obs
       \/ \E c \in BOOLEAN :
             /\ Answered("post_recheck", TRUE)
             /\ result' = result
             /\ IF c THEN /\ pc' = "post_discover"
                          /\ obs' = [obs EXCEPT !.connected = "after_connect"]
                     ELSE /\ pc' = "post_connect"
                          /\ obs' = obs
    /\ UNCHANGED <<opts, adapters, events, stream, device, pid, evt, props,
                   elapsed, waited, connects, stop_scans>>

\* if !device.is_connected().await? { return Err(Error::ConnectFailed) }
PostRecheck ==
    /\ pc = "post_recheck"
    /\ Call("post_recheck")
    /\ \/ Return(ErrBle) /\ Answered("post_recheck", FALSE) /\ obs' = obs
       \/ \E c \in BOOLEAN :
             /\ Answered("post_recheck", TRUE)
             /\ IF c THEN /\ pc' = "post_discover"
                          /\ result' = result
                          /\ obs' = [obs EXCEPT !.connected = "after_connect"]
                     ELSE /\ Return(Err("ConnectFailed"))
                          /\ obs' = [obs EXCEPT !.connected = "never"]
    /\ UNCHANGED <<opts, adapters, events, stream, device, pid, evt, props,
                   elapsed, waited, connects, stop_scans>>

\* device.discover_services().await?
PostDiscover ==
    /\ pc = "post_discover"
    /\ Call("post_discover_services")
    /\ \E ok \in BOOLEAN :
          /\ Answered("post_discover_services", ok)
          /\ IF ok THEN pc' = "post_services" /\ result' = result
                   ELSE Return(ErrBle)
    /\ UNCHANGED <<opts, adapters, events, stream, device, pid, evt, props,
                   elapsed, waited, connects, stop_scans, obs>>

\* the is_empty() test taken as "fewer than two"
PostServices_FewerThanTwo ==
    /\ pc = "post_services"
    /\ Call("services")
    /\ \E n \in 0..MaxServices :
          /\ obs' = [obs EXCEPT !.services = n]
          /\ IF n <= 1 THEN Return(Err("NoServicesFound"))
                       ELSE Return(Ok(device.periph))
    /\ UNCHANGED <<opts, failed, adapters, events, stream, device, pid, evt,
                   props,
                   elapsed, waited, connects, stop_scans>>

\* the is_empty() test left out
PostServices_NoEmptyTest ==
    /\ pc = "post_services"
    /\ Call("services")
    /\ \E n \in 0..MaxServices :
          /\ obs' = [obs EXCEPT !.services = n]
          /\ Return(Ok(device.periph))
    /\ UNCHANGED <<opts, failed, adapters, events, stream, device, pid, evt,
                   props,
                   elapsed, waited, connects, stop_scans>>

\* if device.services().is_empty() { NoServicesFound } ... Ok(Self{ p: device })
PostServices ==
    /\ pc = "post_services"
    /\ Call("services")
    /\ \E n \in 0..MaxServices :
          /\ obs' = [obs EXCEPT !.services = n]
          /\ IF n = 0 THEN Return(Err("NoServicesFound"))
                      ELSE Return(Ok(device.periph))
    /\ UNCHANGED <<opts, failed, adapters, events, stream, device, pid, evt,
                   props,
                   elapsed, waited, connects, stop_scans>>

\* wall-clock time passes while the loop runs; the clock is read only by the
\* loop condition and by the wait, so it stops counting once the deadline is
\* passed and a wait entered before the deadline could time out
Tick ==
    /\ pc \in LoopPcs
    /\ elapsed < opts.search_timeout + WaitTicks - 1
    /\ elapsed' = elapsed + 1
    /\ waited' = IF pc = "wait" /\ waited < WaitTicks THEN waited + 1 ELSE waited
    /\ UNCHANGED <<opts, failed, pc, adapters, events, stream, device, pid, evt, props,
                   result, issued, connects, stop_scans, obs>>

\* the steps the function takes on its own once the awaited call returns
Step ==
    \/ ManagerNew
    \/ Adapters
    \/ SelectAdapter
    \/ EventsSubscribe
    \/ StartScan
    \/ LoopCheck
    \/ WaitTimeout
    \/ WaitEnded
    \/ GetPeripheral
    \/ GetProperties
    \/ InLoopIsConnected
    \/ InLoopConnect
    \/ InLoopDiscover
    \/ OnConnectedDiscover
    \/ PostIsConnected
    \/ PostConnect
    \/ PostRecheck
    \/ PostDiscover
    \/ PostServices

\* what the event stream does
Deliver ==
    \/ \E e \in Events : WaitEvent(e)
    \/ WaitNone

Next == Step \/ Deliver \/ Tick

Spec == Init /\ [][Next]_vars

\* time advances and every call returns; the stream owes nothing
LiveSpec == Spec /\ WF_vars(Tick) /\ WF_vars(Step)

TypeOK ==
    /\ pc \in LoopPcs \cup {"manager", "adapters", "nth", "events", "start_scan",
                            "post_is_connected", "post_connect", "post_recheck",
                            "post_discover", "post_services", "done"}
    /\ adapters \in -1..MaxAdapters
    /\ events \in {"none", "open", "dropped"}
    /\ stream \in {"live", "ended"}
    /\ device \in {NoDevice} \cup {SomeDevice(i, l) : i \in Ids, l \in LocalNames}
    /\ pid \in Ids \cup {NoId}
    /\ evt \in Events \cup {NoEvent}
    /\ props \in PropsResults \cup {NoProps}
    /\ elapsed \in 0..(MaxTimeout + WaitTicks)
    /\ waited \in 0..WaitTicks
    /\ connects \in 0..3
    /\ stop_scans \in 0..1

(* ------------------------------- claims -------------------------------- *)
\* the calls the function makes before it picks the adapter
BeforeSelection == {"Manager::new", "adapters"}

\* the loop was left: drop(events) ran
LoopLeft == events = "dropped"

\* the candidate is the device of the current event, with the fetched properties
CandidateIsEvent ==
    /\ pid = evt.id
    /\ device = SomeDevice(evt.id, props.local_name)

\* name = pre followed by some suffix
IsPrefixOf(pre, name) == \E k \in 0..Len(name) : SubSeq(name, 1, k) = pre

\* the properties are present, carry a name, and the name starts with the prefix
NameFilterPasses ==
    /\ props.res = "Some"
    /\ props.local_name.some
    /\ IsPrefixOf(opts.local_name, props.local_name.val)

\* a DeviceDiscovered event was taken with no candidate set, its properties
\* were fetched, and its handling is over
DiscoveredHandled ==
    /\ pc \in {"loop", "done"}
    /\ evt.kind = "DeviceDiscovered"
    /\ props.res # "unfetched"

\* C1: when the configured adapter index is not below the number of adapters
\* the platform listed (zero adapters included), the selection returns
\* NoMatchingAdaptor(index), and a run that ends so has issued no start-scan,
\* no event subscription and no peripheral command.
C1_NoMatchingAdaptor ==
    /\ [][(pc = "nth" /\ opts.adaptor >= adapters)
            => (pc' = "done" /\ result' = ErrNoMatchingAdaptor(opts.adaptor))]_vars
    /\ [](result.tag = "NoMatchingAdaptor"
            => (/\ result.arg = opts.adaptor
                /\ opts.adaptor >= adapters
                /\ issued \subseteq BeforeSelection
                /\ events = "none"))

C1_Witness ==
    /\ result = ErrNoMatchingAdaptor(opts.adaptor)
    /\ adapters = 0

\* C2: when the loop condition fails with no candidate set the function
\* returns NoDeviceFound; with a candidate set it goes on to the post-loop
\* is_connected check, and no run with a candidate ends in NoDeviceFound.
C2_NoDeviceFound ==
    /\ [][(pc = "loop" /\ pc' # "loop" /\ elapsed >= opts.search_timeout)
            => IF pid = NoId
                  THEN pc' = "done" /\ result' = Err("NoDeviceFound")
                  ELSE pc' = "post_is_connected" /\ result' = Pending]_vars
    /\ [](result.tag = "NoDeviceFound"
            => (pid = NoId /\ LoopLeft /\ elapsed >= opts.search_timeout))

C2_Witness ==
    /\ result.tag = "NoDeviceFound"
    /\ "properties" \in issued

\* C3: every run whose loop ended on the search timeout has invoked stop-scan
\* exactly once by the time it returns.
C3_StopScanOnce == (pc = "done" /\ LoopLeft) => stop_scans = 1

\* C4: first match wins: once the candidate id is set, no step changes the
\* candidate handle, properties or id.
C4_FirstMatchWins ==
    [][pid # NoId => (device' = device /\ pid' = pid)]_vars

C4_Witness ==
    /\ pid # NoId
    /\ pc = "loop"
    /\ evt.kind = "DeviceDiscovered"
    /\ evt.id # pid

\* C5: a run that found a candidate, saw it connected after the loop, had no
\* call fail and read a non-empty service list returns Ok; and every Ok
\* carries the candidate handle, seen connected after the loop, with a
\* non-empty service list read.
C5_Success ==
    /\ (/\ pc = "done"
        /\ device.set
        /\ obs.connected \in {"direct", "after_connect"}
        /\ result.tag # "Ble"
        /\ obs.services >= 1) => result.tag = "Ok"
    /\ result.tag = "Ok"
         => (/\ device.set
             /\ result.arg = device.periph
             /\ pid = device.periph
             /\ obs.connected \in {"direct", "after_connect"}
             /\ obs.services >= 1)

C5_Witness ==
    /\ result.tag = "Ok"
    /\ obs.connected = "after_connect"

\* C6: when the post-loop discover-services returned without error and the
\* service list read back is empty, the function returns NoServicesFound (no
\* handle); and NoServicesFound is returned only then, for a candidate seen
\* connected after the loop.
C6_NoServicesFound ==
    /\ obs.services = 0 => result = Err("NoServicesFound")
    /\ result.tag = "NoServicesFound"
         => (/\ obs.services = 0
             /\ device.set
             /\ obs.connected \in {"direct", "after_connect"}
             /\ "post_discover_services" \in issued)

C6_Witness ==
    /\ result.tag = "NoServicesFound"
    /\ obs.connected = "direct"

\* C7: when the candidate's handle reports not connected at the post-loop
\* check and again after the post-loop connect returned without error, the
\* function returns ConnectFailed and has issued no post-loop
\* discover-services; ConnectFailed is returned only then.
C7_ConnectFailed ==
    /\ obs.connected = "never"
         => (/\ result = Err("ConnectFailed")
             /\ "post_discover_services" \notin issued
             /\ "services" \notin issued)
    /\ result.tag = "ConnectFailed"
         => (/\ obs.connected = "never"
             /\ device.set
             /\ "post_connect" \in issued)

\* the handle said "not connected" every time it was asked, in the loop too
C7_Witness ==
    /\ result.tag = "ConnectFailed"
    /\ "connect" \in issued

\* C8 as stated: a DeviceDiscovered event handled with no candidate set makes
\* its device the candidate iff the properties are present, carry a name and
\* the name starts with the prefix.
C8_CandidateIffMatch ==
    DiscoveredHandled => (CandidateIsEvent <=> NameFilterPasses)

\* C8 amended: ... iff the name filter passes and the is_connected call and
\* the connect or discover-services call that follow it return without error.
C8_CandidateIffMatchAndNoError ==
    DiscoveredHandled =>
        (CandidateIsEvent <=> (NameFilterPasses /\ result.tag # "Ble"))

\* a name longer than the (non-empty) prefix it starts with
C8_Witness ==
    /\ DiscoveredHandled
    /\ CandidateIsEvent
    /\ Len(opts.local_name) = 1
    /\ Len(props.local_name.val) = 2

\* C9: under LiveSpec (time advances, every call returns) the function
\* eventually returns, whatever the event stream does.
C9_Returns == <>(pc = "done")

C9_Witness ==
    /\ pc = "done"
    /\ LoopLeft
    /\ stream = "live"
    /\ opts.search_timeout = MaxTimeout

\* C10: a property fetch that yields None or Err ends the iteration and
\* nothing else: no return, the candidate stays unset, and the fetch is the
\* only call issued.
C10_FetchFailureNotFatal ==
    [][(pc = "properties" /\ props'.res \in {"None", "Err"})
         => (/\ pc' = "loop"
             /\ result' = Pending
             /\ device' = NoDevice
             /\ pid' = NoId
             /\ issued' = issued \cup {"properties"}
             /\ connects' = connects)]_vars

\* a device became the candidate after an earlier fetch had failed
C10_Witness ==
    /\ obs.props_failed
    /\ pid # NoId

\* the calls whose Err the function propagates with `?`
FatalCalls == {"Manager::new", "adapters", "events", "start_scan", "peripheral",
               "is_connected", "connect", "discover_services",
               "evt_discover_services", "post_is_connected", "post_connect",
               "post_recheck", "post_discover_services"}

\* C11: once a platform call other than the property fetch has returned an
\* error the function has returned the Bluetooth error, and no platform call
\* is issued after it; the Bluetooth error is returned for no other reason.
C11_FailureAborts ==
    /\ [](failed # "none" => (pc = "done" /\ result = ErrBle))
    /\ [](result.tag = "Ble" => failed \in FatalCalls)
    /\ [][failed # "none" => issued' = issued]_vars

C11_Witness ==
    /\ failed = "connect"
    /\ result = ErrBle

\* C12: an event received while a candidate is set and whose id is not the
\* candidate's, and an event other than DeviceDiscovered received while no
\* candidate is set, ends the iteration at once: no platform call, and the
\* candidate, the result and everything the function recorded are unchanged.
C12_OtherEventsIgnored ==
    [][(/\ pc = "wait"
        /\ evt'.kind # "none"
        /\ IF pid # NoId THEN evt'.id # pid ELSE evt'.kind # "DeviceDiscovered")
         => (/\ pc' = "loop"
             /\ UNCHANGED <<device, pid, props, issued, connects, result,
                            failed, events, obs>>)]_vars

C12_Witness ==
    /\ pid # NoId
    /\ pc = "loop"
    /\ evt.kind = "DeviceConnected"
    /\ evt.id # pid

\* the await points inside the loop whose call is followed by `?`
InLoopCallPcs == {"peripheral", "is_connected", "connect", "discover_services",
                  "evt_discover"}

\* C13 as stated: the loop is left only when the elapsed time has reached
\* search_timeout; every wait outcome and every processed event continues it.
C13_LeftOnlyOnTimeout ==
    [][(pc \in LoopPcs /\ pc' \notin LoopPcs)
         => elapsed >= opts.search_timeout]_vars

\* C13 amended: the loop is left only by the loop condition failing, which it
\* does exactly when the elapsed time has reached search_timeout, or by a
\* platform call of an event's handling failing, which returns the Bluetooth
\* error; a wait that yields no event continues the loop and is no error.
C13_LeftOnTimeoutOrFailure ==
    /\ [][(pc \in LoopPcs /\ pc' \notin LoopPcs)
            => \/ pc = "loop" /\ elapsed >= opts.search_timeout
               \/ /\ pc \in InLoopCallPcs
                  /\ failed = "none" /\ failed' # "none"
                  /\ pc' = "done" /\ result' = ErrBle]_vars
    /\ [][(pc = "loop" /\ pc' # "loop")
            => (pc' = "wait" <=> elapsed < opts.search_timeout)]_vars
    /\ [][(pc = "wait" /\ pc' # "wait" /\ evt' = NoEvent)
            => (pc' = "loop" /\ result' = Pending /\ failed' = "none")]_vars

\* the loop ran on after the stream had ended and left on the timeout, with
\* a candidate found on the way
C13_Witness ==
    /\ pc = "post_is_connected"
    /\ stream = "ended"
    /\ elapsed >= opts.search_timeout
    /\ opts.search_timeout = MaxTimeout

\* the two commands the DeviceDiscovered arm chooses between
InLoopCommands == {"connect", "discover_services"}

\* C14 as stated: when the matched handle's command (connect if it reports
\* not connected, discover-services if connected) is issued the candidate is
\* already recorded, and a failure of the command leaves it recorded.
C14_RecordedBeforeCommand ==
    /\ pc \in InLoopCommands =>
          /\ CandidateIsEvent
          /\ pc = "connect" <=> obs.in_connected = "false"
    /\ failed \in InLoopCommands => pid # NoId

\* C14 amended: when a DeviceDiscovered event passes the matcher with no
\* candidate set, exactly one command is issued on the handle (connect if it
\* reports not connected, discover-services if connected) while the candidate
\* is still unset; the candidate is recorded by the step in which that command
\* returns without error, and a failure of the command leaves it unrecorded.
C14_RecordedAfterCommand ==
    /\ [](pc \in InLoopCommands =>
            /\ evt.kind = "DeviceDiscovered" /\ NameFilterPasses
            /\ pid = NoId /\ ~device.set
            /\ pc = "connect" <=> obs.in_connected = "false")
    /\ [](failed \in InLoopCommands => (pid = NoId /\ ~device.set))
    /\ [](~(InLoopCommands \subseteq issued))
    /\ [][(pid = NoId /\ pid' # NoId)
            => /\ pc \in InLoopCommands
               /\ issued' = issued \cup {pc}
               /\ failed' = "none"
               /\ pc' = "loop"
               /\ CandidateIsEvent']_vars

\* the candidate recorded after a discover-services on a connected handle
C14_Witness ==
    /\ pid # NoId
    /\ CandidateIsEvent
    /\ obs.in_connected = "true"
    /\ "discover_services" \in issued
    /\ "connect" \notin issued

\* C15: a DeviceConnected event taken from the stream reaches the
\* discover-services call iff a candidate is set and the event carries its id,
\* otherwise the loop goes on with no call; the call is made once, on the
\* candidate's handle, and leaves the candidate, the connect count and the
\* subscription as they were (its failure returns the Bluetooth error).
C15_ConnectedTriggersDiscover ==
    /\ [][(pc = "wait" /\ evt'.kind = "DeviceConnected")
            => /\ pc' = IF pid # NoId /\ evt'.id = pid THEN "evt_discover"
                                                       ELSE "loop"
               /\ UNCHANGED <<issued, device, pid, connects, result, failed,
                              events>>]_vars
    /\ [][(pc = "evt_discover" /\ pc' # pc)
            => /\ issued' = issued \cup {"evt_discover_services"}
               /\ obs'.evt_target = pid
               /\ obs'.connected = obs.connected
               /\ obs'.in_connected = obs.in_connected
               /\ UNCHANGED <<device, pid, connects, props, evt, events,
                              stream, elapsed, stop_scans>>
               /\ \/ pc' = "loop" /\ UNCHANGED <<result, failed>>
                  \/ /\ pc' = "done" /\ result' = ErrBle
                     /\ failed' = "evt_discover_services"]_vars
    /\ []("evt_discover_services" \in issued
            => (obs.evt_target # NoId /\ obs.evt_target = pid))

\* the candidate's DeviceConnected event was handled and the loop goes on
C15_Witness ==
    /\ pc = "loop"
    /\ result = Pending
    /\ pid # NoId
    /\ evt = [kind |-> "DeviceConnected", id |-> pid]
    /\ "evt_discover_services" \in issued
    /\ obs.evt_target = pid

\* the event kinds whose arm only writes a log line
LogOnlyKinds == {"DeviceDisconnected", "ManufacturerDataAdvertisement",
                 "ServicesAdvertisement", "ServiceDataAdvertisement",
                 "DeviceUpdated"}

\* the calls of the Scanning state: the scan itself and a discovery's handling
ScanningCalls == {"start_scan", "peripheral", "properties", "is_connected",
                  "connect", "discover_services"}

\* C16: a DeviceDisconnected, advertisement or DeviceUpdated event for the
\* candidate's id only logs: the loop goes on with the candidate, the issued
\* calls and the connect count as they were; and once the candidate's
\* disconnect was seen the candidate stays the same and no call of the
\* Scanning state (start-scan, or the handling of a discovery) is made again.
C16_LogOnly ==
    /\ [][(/\ pc = "wait" /\ pid # NoId
           /\ evt'.kind \in LogOnlyKinds /\ evt'.id = pid)
            => /\ pc' = "loop"
               /\ UNCHANGED <<device, pid, props, issued, connects, result,
                              failed, events, stop_scans>>]_vars
    /\ [][obs.disconnected
            => /\ pid # NoId /\ pid' = pid /\ device' = device
               /\ (issued' \ issued) \cap ScanningCalls = {}
               /\ pc' \notin {"peripheral", "properties", "is_connected",
                              "connect", "discover_services"}]_vars

\* after the candidate's disconnect a discovery of the other device was
\* taken from the stream and left alone
C16_Witness ==
    /\ obs.disconnected
    /\ pc = "loop"
    /\ evt.kind = "DeviceDiscovered"
    /\ evt.id # pid
    /\ device.set

\* the candidate's DeviceConnected and DeviceDisconnected events
LinkKinds == {"DeviceConnected", "DeviceDisconnected"}

\* what the code after the loop returns for a candidate, from the answers the
\* platform gave to its calls
PostOutcome ==
    IF failed # "none" THEN ErrBle
    ELSE IF obs.connected = "never" THEN Err("ConnectFailed")
    ELSE IF obs.services = 0 THEN Err("NoServicesFound")
    ELSE Ok(pid)

\* C17 as stated, as the step condition it rests on: handling the candidate's
\* DeviceConnected or DeviceDisconnected event leaves the run where a dropped
\* event leaves it: the loop goes on with the same candidate, the same
\* subscription and no outcome, so the outcome is the one of the code after
\* the loop.
C17_HandlingChangesNoOutcome ==
    /\ [][(/\ pc = "wait" /\ pid # NoId
           /\ evt'.kind \in LinkKinds /\ evt'.id = pid)
            => UNCHANGED <<device, pid, result, events, connects>>]_vars
    /\ [][(pc = "evt_discover" /\ pc' # pc)
            => /\ pc' = "loop"
               /\ UNCHANGED <<device, pid, result, events, connects>>]_vars

\* C17 amended: the same, provided the discover-services call that each
\* delivered DeviceConnected event of the candidate triggers returns without
\* error; when it fails the run returns the Bluetooth error from inside the
\* loop, which the run with the event dropped does not.  A run with a
\* candidate in which no such call failed returns what the code after the
\* loop computes from the platform's answers to its own calls.
C17_SameOutcomeUnlessDiscoverFails ==
    /\ [][(/\ pc = "wait" /\ pid # NoId
           /\ evt'.kind \in LinkKinds /\ evt'.id = pid)
            => UNCHANGED <<device, pid, result, events, connects, failed>>]_vars
    /\ [][(pc = "evt_discover" /\ pc' # pc)
            => /\ UNCHANGED <<device, pid, events, connects>>
               /\ \/ pc' = "loop" /\ UNCHANGED <<result, failed>>
                  \/ /\ pc' = "done" /\ result' = ErrBle
                     /\ failed' = "evt_discover_services"]_vars
    /\ []((pc = "done" /\ pid # NoId /\ failed # "evt_discover_services")
            => (LoopLeft /\ result = PostOutcome))

\* both events of the candidate were handled in the loop and the run succeeded
C17_Witness ==
    /\ result.tag = "Ok"
    /\ "evt_discover_services" \in issued
    /\ obs.disconnected

\* the handle reported "not connected" at the check after the loop
PostCheckNotConnected ==
    \/ pc \in {"post_connect", "post_recheck"}
    \/ obs.connected \in {"after_connect", "never"}
    \/ failed \in {"post_connect", "post_recheck"}

\* C18 as stated: connect is issued at most twice, in the loop only on a
\* handle that reported not connected and after the loop only on one that
\* reported not connected at the check there; and a run that saw the
\* candidate's disconnect in the loop and had no call fail has made the
\* connect attempt after the loop by the time it returns.
C18_ReconnectAfterDisconnect ==
    /\ connects <= 2
    /\ "connect" \in issued => obs.in_connected = "false"
    /\ "post_connect" \in issued => PostCheckNotConnected
    /\ (pc = "done" /\ obs.disconnected /\ failed = "none")
         => "post_connect" \in issued

\* C18 amended: connect is issued at most twice: at most once in the loop,
\* for the matched device before a candidate is set and only if the handle
\* reported not connected, and at most once after the loop, only if the
\* handle reported not connected at the check there; a disconnect seen in
\* the loop changes nothing in this: the connect after the loop is made iff
\* that check is reached and reports not connected.
C18_AtMostTwoConnects ==
    /\ [](connects <= 2)
    /\ []("connect" \in issued => obs.in_connected = "false")
    /\ []("post_connect" \in issued => (LoopLeft /\ PostCheckNotConnected))
    /\ [][connects' # connects
            => /\ connects' = connects + 1
               /\ \/ /\ pc = "connect" /\ pid = NoId
                     /\ {"connect", "post_connect"} \cap issued = {}
                     /\ issued' = issued \cup {"connect"}
                  \/ /\ pc = "post_connect" /\ LoopLeft
                     /\ "post_connect" \notin issued
                     /\ issued' = issued \cup {"post_connect"}]_vars
    /\ []((pc = "done" /\ obs.disconnected)
            => ("post_connect" \in issued <=> PostCheckNotConnected))
    /\ []((pc = "done" /\ obs.connected = "direct")
            => (connects <= 1 /\ "post_connect" \notin issued))

\* connected in the loop, seen disconnected there, reconnected after the loop
C18_Witness ==
    /\ pc = "done"
    /\ obs.disconnected
    /\ connects = 2
    /\ obs.connected = "after_connect"

\* C19: in every reachable state the candidate handle is present iff the
\* candidate id is present, and it is the handle of that id; so the
\* DeviceConnected arm, entered only with the id set, finds the handle and
\* the unwrap never panics.
C19_HandleIffId ==
    /\ device.set <=> pid # NoId
    /\ device.set => device.periph = pid
    /\ pc = "evt_discover" => (device.set /\ evt.id = device.periph)
    /\ result.tag # "panic"

\* the DeviceConnected arm about to unwrap the handle
C19_Witness ==
    /\ pc = "evt_discover"
    /\ device.set
    /\ pid = evt.id

\* the outcomes the code after the loop produces
LateOutcomes == {"Ok", "NoDeviceFound", "ConnectFailed", "NoServicesFound"}

\* the calls made on the candidate's handle after the loop
PostCalls == {"post_is_connected", "post_connect", "post_recheck",
              "post_discover_services", "services"}

\* C20: success, NoDeviceFound, ConnectFailed and NoServicesFound are
\* returned only once the elapsed time has reached search_timeout and the
\* loop was left; a run that returns before that returns NoMatchingAdaptor
\* or the Bluetooth error; the subscription is dropped before the first call
\* after the loop, and once it is dropped no event is taken from the stream.
C20_NoEarlyExit ==
    /\ [](result.tag \in LateOutcomes
            => (LoopLeft /\ elapsed >= opts.search_timeout))
    /\ []((pc = "done" /\ elapsed < opts.search_timeout)
            => result.tag \in {"NoMatchingAdaptor", "Ble"})
    /\ [](issued \cap PostCalls # {} => LoopLeft)
    /\ [](pc \in {"post_is_connected", "post_connect", "post_recheck",
                  "post_discover", "post_services"} => LoopLeft)
    /\ [][LoopLeft => UNCHANGED <<events, stream, evt, elapsed>>]_vars

\* a candidate found, connected and discovered in the loop, returned only
\* after the longest timeout had run out
C20_Witness ==
    /\ result.tag = "Ok"
    /\ obs.connected = "direct"
    /\ "evt_discover_services" \in issued
    /\ opts.search_timeout = MaxTimeout
    /\ elapsed >= MaxTimeout

====
